---------------------------- MODULE Spec2Model ----------------------------
(***************************************************************************)
(* AI-Interview-Trainer: the answer scorer, the session aggregator and the  *)
(* question source (js/aiService.js), the history store (StorageService)   *)
(* and the session controller (InterviewEngine).                           *)
(*                                                                         *)
(* Text is modelled as TLA+ strings, i.e. sequences of characters: the     *)
(* regular expressions and substring tests of the source are computed      *)
(* character by character.  JavaScript values that may be null or of the   *)
(* wrong type are tagged records [t, s].  The localStorage item and the    *)
(* exported file are JSON texts: JSON.stringify and JSON.parse convert     *)
(* between them and the values in memory.                                  *)
(***************************************************************************)
EXTENDS Integers, Sequences, FiniteSets, TLC

VARIABLES
    sessionData,   \* the argument handed to AIService.evaluateInterview
    evaluation,    \* what the last AIService call produced
    storage,       \* localStorage['interview_trainer_history']
    nextId,        \* source of fresh ids (Date.now() + random suffix)
    lastOp,        \* the last StorageService call: name, argument, result, and
                   \* the storage item the call found
    exported,      \* content of the file written by the last exportData
    savesLeft,     \* successful saves of the usual record still to come
    callsLeft,     \* other StorageService calls still to come
    state,         \* InterviewEngine.state
    sessionTranscript, \* InterviewEngine.sessionTranscript
    isRecording,   \* InterviewEngine.isRecording
    isListening,   \* the speech device is listening (voice.isListening)
    sessionItem,   \* localStorage['ai_interview_session_v1']
    dom,           \* the page: active phase, buttons, question and report shown
    pendingCalls,  \* startInterview calls waiting for the remote service: the role
                   \* and count asked for, the session id of the call, and whether
                   \* an earlier call was pending when it was made
    useMockData,   \* AIService.useMockData: no key in localStorage['openai_api_key']
    lastEvent,     \* the last handler that ran: name, question index it found,
                   \* whether it raised, the data it worked on (source, note),
                   \* whether localStorage refused its write (quota)
    budget         \* start clicks and saved answers still to come

ctrlVars == <<state, sessionTranscript, isRecording, isListening, sessionItem, dom,
              pendingCalls, useMockData, lastEvent, budget>>

vars == <<sessionData, evaluation, storage, nextId, lastOp, exported, savesLeft, callsLeft,
          ctrlVars>>

evalVars == <<sessionData, evaluation>>
storeVars == <<storage, nextId, lastOp, exported, savesLeft, callsLeft>>

(***************************************************************************)
(* Generic helpers                                                         *)
(***************************************************************************)
Min(a, b) == IF a <= b THEN a ELSE b

\* Math.round(p / q) for q > 0, computed exactly: floor(p/q + 1/2)
Round(p, q) == (2 * p + q) \div (2 * q)

\* Array.prototype.map: F(element, position) of every element, in order
RECURSIVE ArrayOf(_, _)
ArrayOf(f, n) == IF n = 0 THEN <<>> ELSE Append(ArrayOf(f, n - 1), f[n])

map(arr, F(_, _)) == ArrayOf([i \in DOMAIN arr |-> F(arr[i], i)], Len(arr))

RECURSIVE SeqSum(_)
SeqSum(s) == IF s = <<>> THEN 0 ELSE Head(s) + SeqSum(Tail(s))

(***************************************************************************)
(* Characters and strings                                                  *)
(***************************************************************************)
lowerAlphabet == "abcdefghijklmnopqrstuvwxyz"
upperAlphabet == "ABCDEFGHIJKLMNOPQRSTUVWXYZ"
digitChars == "0123456789"

Ch(s, i) == SubSeq(s, i, i)

Drop(s, n) == SubSeq(s, n + 1, Len(s))

Chars(s) == {Ch(s, i) : i \in 1..Len(s)}

LowerSet == Chars(lowerAlphabet)
UpperSet == Chars(upperAlphabet)
DigitSet == Chars(digitChars)

\* \s of the regular expressions (the whitespace the inputs use)
SpaceSet == {" ", "\t", "\n"}

\* \w of the regular expressions
WordSet == LowerSet \cup UpperSet \cup DigitSet \cup {"_"}

lowerOf == [c \in UpperSet |->
              Ch(lowerAlphabet, CHOOSE i \in 1..Len(upperAlphabet) : Ch(upperAlphabet, i) = c)]
upperOf == [c \in LowerSet |->
              Ch(upperAlphabet, CHOOSE i \in 1..Len(lowerAlphabet) : Ch(lowerAlphabet, i) = c)]

ToLowerChar(c) == IF c \in UpperSet THEN lowerOf[c] ELSE c
ToUpperChar(c) == IF c \in LowerSet THEN upperOf[c] ELSE c

\* the concatenation of the strings pieces[lo], ..., pieces[hi]
RECURSIVE Concat(_, _, _)
Concat(pieces, lo, hi) ==
    IF lo > hi THEN ""
    ELSE IF lo = hi THEN pieces[lo]
    ELSE LET mid == (lo + hi) \div 2
         IN Concat(pieces, lo, mid) \o Concat(pieces, mid + 1, hi)

\* a string rebuilt from what each of its positions contributes
Rebuild(s, Piece(_)) == Concat([i \in 1..Len(s) |-> Piece(i)], 1, Len(s))

toLowerCase(s) == Rebuild(s, LAMBDA i : ToLowerChar(Ch(s, i)))

IsSpace(s, i) == i >= 1 /\ i <= Len(s) /\ Ch(s, i) \in SpaceSet

\* index of the first non-whitespace character at or after i, Len(s) + 1 if none
RECURSIVE NextNonSpace(_, _)
NextNonSpace(s, i) == IF IsSpace(s, i) THEN NextNonSpace(s, i + 1) ELSE i

\* index of the last non-whitespace character at or before i, 0 if none
RECURSIVE PrevNonSpace(_, _)
PrevNonSpace(s, i) == IF IsSpace(s, i) THEN PrevNonSpace(s, i - 1) ELSE i

CharIn(s, i, set) == i >= 1 /\ i <= Len(s) /\ Ch(s, i) \in set

\* String.prototype.includes
includes(hay, needle) ==
    \E i \in 1..(Len(hay) - Len(needle) + 1) : SubSeq(hay, i, i + Len(needle) - 1) = needle

\* String.prototype.trim
trim(s) ==
    LET first == NextNonSpace(s, 1)
        last == PrevNonSpace(s, Len(s))
    IN IF first > Len(s) THEN "" ELSE SubSeq(s, first, last)

\* answer.split(/\s+/).length : one more than the number of whitespace runs
splitLength(s) ==
    Cardinality({i \in 1..Len(s) : IsSpace(s, i) /\ ~IsSpace(s, i - 1)}) + 1

(***************************************************************************)
(* Tagged JavaScript values: a string, null, or a value of another type    *)
(***************************************************************************)
Str(s) == [t |-> "string", s |-> s]
Null == [t |-> "null", s |-> ""]
NonString == [t |-> "number", s |-> ""]   \* a truthy non-string, e.g. 42

Truthy(v) == (v.t = "string" /\ v.s # "") \/ v.t = "number"

(***************************************************************************)
(* AIService.cleanTranscript                                               *)
(***************************************************************************)
fillerWords ==
    << "um", "uh", "ah", "er", "like", "you know", "sort of", "kind of",
       "actually", "basically" >>

\* \b at the gap before position i of s
WordBoundary(s, i) ==
    LET before == i > 1 /\ Ch(s, i - 1) \in WordSet
        after == i <= Len(s) /\ Ch(s, i) \in WordSet
    IN before # after

\* length of the filler matched by /\b(um|uh|...)\b/i at position i, 0 if none
FillerAt(s, i) ==
    LET Hit(k) == /\ i + Len(fillerWords[k]) - 1 <= Len(s)
                  /\ WordBoundary(s, i + Len(fillerWords[k]))
                  /\ toLowerCase(SubSeq(s, i, i + Len(fillerWords[k]) - 1)) = fillerWords[k]
        hits == {k \in DOMAIN fillerWords : Hit(k)}
    IN IF ~WordBoundary(s, i) \/ hits = {} THEN 0
       ELSE Len(fillerWords[CHOOSE k \in hits : \A j \in hits : k <= j])

\* .replace(/\b(um|uh|ah|er|like|you know|sort of|kind of|actually|basically)\b/gi, '')
\* Two matches never overlap: inside a matched filler the only word boundaries are
\* around the space of "you know", "sort of", "kind of", and no filler begins with a
\* space, with "know" or with "of".  So a character is removed exactly when it lies
\* in a match.
RemoveFillers(s) ==
    LET starts == {i \in 1..Len(s) : FillerAt(s, i) > 0}
        Removed(p) == \E i \in starts : i <= p /\ p - i < FillerAt(s, i)
    IN Rebuild(s, LAMBDA p : IF Removed(p) THEN "" ELSE Ch(s, p))

\* .replace(/\s+/g, ' ') : a whitespace run contributes one space, at its first position
CollapseSpaces(s) ==
    Rebuild(s, LAMBDA i : IF IsSpace(s, i)
                          THEN (IF IsSpace(s, i - 1) THEN "" ELSE " ")
                          ELSE Ch(s, i))

\* .replace(/\s+([.,!?])/g, '$1') : a whitespace run followed by one of . , ! ? goes
FixSpaceBeforePunct(s) ==
    Rebuild(s, LAMBDA i : IF IsSpace(s, i) /\ CharIn(s, NextNonSpace(s, i), {".", ",", "!", "?"})
                          THEN ""
                          ELSE Ch(s, i))

\* .replace(/([.!?])\s*([a-z])/g, (match, p1, p2) => p1 + ' ' + p2.toUpperCase())
\* A match is one of . ! ?, the whitespace after it and the lower-case letter that
\* follows; matches cannot overlap, since a match ends with a letter.
CapitalizeSentences(s) ==
    LET Ender(i) == CharIn(s, i, {".", "!", "?"})
        Piece(i) ==
            IF Ender(i) /\ CharIn(s, NextNonSpace(s, i + 1), LowerSet)
            THEN Ch(s, i) \o " "
            ELSE IF IsSpace(s, i) /\ Ender(PrevNonSpace(s, i))
                                  /\ CharIn(s, NextNonSpace(s, i), LowerSet)
            THEN ""
            ELSE IF CharIn(s, i, LowerSet) /\ i > 1 /\ Ender(PrevNonSpace(s, i - 1))
            THEN ToUpperChar(Ch(s, i))
            ELSE Ch(s, i)
    IN Rebuild(s, Piece)

\* .replace(/^[a-z]/, c => c.toUpperCase())
CapitalizeFirst(s) ==
    IF CharIn(s, 1, LowerSet) THEN ToUpperChar(Ch(s, 1)) \o Drop(s, 1) ELSE s

cleanTranscript(rawText) ==
    IF rawText = "" THEN ""
    ELSE LET cleaned == trim(CapitalizeFirst(CapitalizeSentences(
                            FixSpaceBeforePunct(CollapseSpaces(RemoveFillers(rawText))))))
         IN IF Len(cleaned) > 0 /\ Ch(cleaned, Len(cleaned)) \notin {".", "!", "?"}
            THEN cleaned \o "."
            ELSE cleaned

(***************************************************************************)
(* AIService: knowledge base and indicator tables                          *)
(***************************************************************************)
defaultRole == "Data Scientist"

knowledgeBaseRoles ==
    {"Data Scientist", "Frontend Developer", "Backend Developer", "Product Manager"}

knowledgeBaseKeywords(role) ==
    CASE role = "Data Scientist" ->
           <<"python", "pandas", "numpy", "scikit-learn", "tensorflow", "statistics",
             "visualization">>
      [] role = "Frontend Developer" ->
           <<"html", "css", "javascript", "react", "components", "state", "props">>
      [] role = "Backend Developer" ->
           <<"api", "database", "server", "node.js", "python", "java", "sql">>
      [] role = "Product Manager" ->
           <<"product", "user", "market", "roadmap", "stakeholder", "metrics">>

exampleIndicators ==
    <<"for example", "such as", "like when", "instance", "case study", "in practice">>

structureIndicators ==
    <<"first", "second", "finally", "in conclusion", "1.", "2.", "firstly", "secondly">>

containsExamples(answer) ==
    LET answerLower == toLowerCase(answer)
    IN \E k \in DOMAIN exampleIndicators : includes(answerLower, exampleIndicators[k])

hasStructure(answer) ==
    LET answerLower == toLowerCase(answer)
    IN \E k \in DOMAIN structureIndicators : includes(answerLower, structureIndicators[k])

hasTechnicalTerms(answer, role) ==
    LET roleBase == IF role \in knowledgeBaseRoles THEN role ELSE defaultRole
        keywords == knowledgeBaseKeywords(roleBase)
        answerLower == toLowerCase(answer)
    IN \E k \in DOMAIN keywords : includes(answerLower, toLowerCase(keywords[k]))

(***************************************************************************)
(* AIService.evaluateAnswerIntelligently                                   *)
(***************************************************************************)
\* the tiers with the thresholds excluded: score > 80, score > 50
CorrectnessAboveThreshold(score) ==
    IF score > 80 THEN "correct"
    ELSE IF score > 50 THEN "partial"
    ELSE "incorrect"

\* the three branches of "Determine correctness"
Correctness(score) ==
    IF score >= 80 THEN "correct"
    ELSE IF score >= 50 THEN "partial"
    ELSE "incorrect"

\* is the concept mentioned: answerLower.includes(concept.toLowerCase())
Mentioned(answerLower, concept) == includes(answerLower, toLowerCase(concept.s))

coveredConcepts(answerLower, expectedConcepts) ==
    SelectSeq(expectedConcepts, LAMBDA c : Mentioned(answerLower, c))

missingConceptsOf(answerLower, expectedConcepts) ==
    SelectSeq(expectedConcepts, LAMBDA c : ~Mentioned(answerLower, c))

\* a concept sub-score that weighs every mentioned concept as 40 points
conceptScorePerConcept(covered, total) ==
    IF total > 0 THEN <<40 * covered, 1>> ELSE <<30, 1>>

\* conceptScore = expectedConcepts.length > 0
\*     ? (conceptsCovered / expectedConcepts.length) * 40 : 30
\* as the exact fraction <<numerator, denominator>>
conceptScore(covered, total) ==
    IF total > 0 THEN <<40 * covered, total>> ELSE <<30, 1>>

\* examplesScore = hasExamples ? 15 : 0
examplesScore(hasEx) == IF hasEx THEN 15 ELSE 0

\* conceptScore + depthScore + examplesScore + structureScore + technicalScore as
\* the exact fraction <<numerator, denominator>>;
\*   conceptScore = (covered / total) * 40, or 30 without concepts
\*   depthScore   = Math.min(20, (wordCount / 15) * 10)
ScoreParts(covered, total, wordCount, hasEx, hasStruct, hasTech) ==
    LET bonus == examplesScore(hasEx) + (IF hasStruct THEN 10 ELSE 0)
                   + (IF hasTech THEN 15 ELSE 0)
        cs == conceptScore(covered, total)
        den == 3 * cs[2]
        concept == 3 * cs[1]
        depth == IF 2 * wordCount >= 60 THEN 20 * den ELSE (2 * wordCount * den) \div 3
    IN <<concept + depth + bonus * den, den>>

\* the score without its two Math.min caps: depthScore = (wordCount / 15) * 10 and
\* score = Math.round(sum of the five parts)
ScoreOfUncapped(covered, total, wordCount, hasEx, hasStruct, hasTech) ==
    LET bonus == (IF hasEx THEN 15 ELSE 0) + (IF hasStruct THEN 10 ELSE 0)
                   + (IF hasTech THEN 15 ELSE 0)
        den == 3 * (IF total > 0 THEN total ELSE 1)
        concept == IF total > 0 THEN 120 * covered ELSE 90
    IN Round(concept + (2 * wordCount * den) \div 3 + bonus * den, den)

\* result.score = Math.min(100, Math.round(sum of the five parts))
ScoreOf(covered, total, wordCount, hasEx, hasStruct, hasTech) ==
    LET parts == ScoreParts(covered, total, wordCount, hasEx, hasStruct, hasTech)
    IN Min(100, Round(parts[1], parts[2]))

\* concept.toLowerCase() raises a TypeError on a concept that is no string
evaluateAnswerThrows(expectedConcepts) ==
    \E k \in DOMAIN expectedConcepts : expectedConcepts[k].t # "string"

evaluateAnswerIntelligently(answer, expectedConcepts, role) ==
    LET answerLower == toLowerCase(answer)
        score == ScoreOf(Len(coveredConcepts(answerLower, expectedConcepts)),
                         Len(expectedConcepts), splitLength(answer),
                         containsExamples(answer), hasStructure(answer),
                         hasTechnicalTerms(answer, role))
    IN [score |-> score,
        correctness |-> Correctness(score),
        missingConcepts |-> missingConceptsOf(answerLower, expectedConcepts)]

(***************************************************************************)
(* AIService.analyzeSingleAnswerIntelligently / analyzeAllAnswers          *)
(* A question q is [expectedConcepts, userAnswer]; a cleaned question also *)
(* carries cleanedAnswer.  An analysis keeps the fields the report reads.  *)
(***************************************************************************)
\* q.cleanedAnswer || q.userAnswer || ''
answerOf(q) ==
    IF q.cleanedAnswer # "" THEN q.cleanedAnswer
    ELSE IF Truthy(q.userAnswer) THEN q.userAnswer.s
    ELSE ""

analyzeSingleAnswerIntelligently(q, role, index) ==
    LET answer == answerOf(q)
    IN IF trim(answer) = ""
       THEN [questionIndex |-> index, cleanedAnswer |-> Str(answer), score |-> 0,
             correctness |-> "incorrect", missingConcepts |-> <<>>]
       ELSE LET result == evaluateAnswerIntelligently(answer, q.expectedConcepts, role)
            IN [questionIndex |-> index, cleanedAnswer |-> Str(answer),
                score |-> result.score, correctness |-> result.correctness,
                missingConcepts |-> result.missingConcepts]

analyzeSingleThrows(q) ==
    trim(answerOf(q)) # "" /\ evaluateAnswerThrows(q.expectedConcepts)

analyzeAllAnswers(role, questions) ==
    map(questions, LAMBDA q, i :
        analyzeSingleAnswerIntelligently(q, IF role = "" THEN defaultRole ELSE role, i - 1))

(***************************************************************************)
(* AIService.generateIntelligentReport                                     *)
(***************************************************************************)
\* the value of 0 / 0; every comparison with a threshold is false, as with -1
NaN == -1

RECURSIVE deduplicateArray(_)
deduplicateArray(arr) ==
    IF arr = <<>> THEN <<>>
    ELSE LET front == deduplicateArray(SubSeq(arr, 1, Len(arr) - 1))
             last == arr[Len(arr)]
         IN IF \E k \in DOMAIN front : front[k] = last THEN front ELSE Append(front, last)

RECURSIVE flatMissing(_)
flatMissing(analyses) ==
    IF analyses = <<>> THEN <<>>
    ELSE Head(analyses).missingConcepts \o flatMissing(Tail(analyses))

answerLength(a) == IF a.cleanedAnswer.t = "string" THEN Len(a.cleanedAnswer.s) ELSE 0

\* the number of analyses outside a tier
CountOtherTiers(analyses, tier) ==
    Cardinality({i \in DOMAIN analyses : analyses[i].correctness # tier})

CountTier(analyses, tier) ==
    Cardinality({i \in DOMAIN analyses : analyses[i].correctness = tier})

\* analyses.some(a => !this.containsExamples(a.cleanedAnswer)) visits the analyses in
\* order and stops at the first answer without an example phrase; an answer that is
\* no string has no toLowerCase and raises a TypeError when it is visited
someLacksExamplesThrows(analyses) ==
    \E i \in DOMAIN analyses :
        /\ analyses[i].cleanedAnswer.t # "string"
        /\ \A j \in 1..(i - 1) : containsExamples(analyses[j].cleanedAnswer.s)

someLacksExamples(analyses) ==
    \E i \in DOMAIN analyses : ~containsExamples(analyses[i].cleanedAnswer.s)

suggestionsOf(analyses) ==
    LET s1 == IF CountTier(analyses, "incorrect") > 0
              THEN <<"Review fundamentals">> ELSE <<>>
        s2 == IF someLacksExamples(analyses)
              THEN <<"Include concrete examples in your answers">> ELSE <<>>
        s3 == IF \E i \in DOMAIN analyses : answerLength(analyses[i]) < 50
              THEN <<"Provide more detailed, elaborated responses">> ELSE <<>>
        s == s1 \o s2 \o s3
        filled == IF Len(s) < 3
                  THEN s \o <<"Practice with timed mock interviews",
                              "Study role-specific case studies">>
                  ELSE s
    IN SubSeq(filled, 1, Min(5, Len(filled)))

determineKnowledgeLevel(overallScore, analyses) ==
    LET n == Len(analyses)
        depthSum == SeqSum([i \in DOMAIN analyses |-> answerLength(analyses[i])])
    IN IF n > 0 /\ overallScore >= 85 /\ depthSum > 150 * n THEN "Expert"
       ELSE IF n > 0 /\ overallScore >= 70 /\ depthSum > 100 * n THEN "Advanced"
       ELSE IF n > 0 /\ overallScore >= 50 /\ depthSum > 60 * n THEN "Intermediate"
       ELSE "Beginner"

generateIntelligentReport(analyses) ==
    LET totalScore == SeqSum([i \in DOMAIN analyses |-> analyses[i].score])
        overallScore == IF Len(analyses) = 0 THEN NaN
                        ELSE Round(totalScore, Len(analyses))
        allMissing == deduplicateArray(flatMissing(analyses))
    IN [overallScore |-> overallScore,
        missingConcepts |-> SubSeq(allMissing, 1, Min(5, Len(allMissing))),
        suggestions |-> suggestionsOf(analyses),
        knowledgeLevel |-> determineKnowledgeLevel(overallScore, analyses),
        questionAnalyses |-> analyses,
        stats |-> [correct |-> CountTier(analyses, "correct"),
                   partial |-> CountTier(analyses, "partial"),
                   incorrect |-> CountTier(analyses, "incorrect")]]

getEmptyEvaluation ==
    [overallScore |-> 0,
     missingConcepts |-> <<>>,
     suggestions |-> <<"Start a new interview session">>,
     knowledgeLevel |-> "Not assessed",
     questionAnalyses |-> <<>>,
     stats |-> [correct |-> 0, partial |-> 0, incorrect |-> 0]]

fallbackAnalyses(questions) ==
    map(questions, LAMBDA q, i :
        [questionIndex |-> i - 1,
         cleanedAnswer |-> IF Truthy(q.userAnswer) THEN q.userAnswer ELSE Str(""),
         score |-> 50,
         correctness |-> "partial",
         missingConcepts |-> q.expectedConcepts])

getFallbackEvaluation(questions) == generateIntelligentReport(fallbackAnalyses(questions))

(***************************************************************************)
(* AIService.evaluateInterview                                             *)
(* sessionData is [t, role, questions]: t = "null" when no session is      *)
(* given, role = "" when the session carries no role.                      *)
(***************************************************************************)
\* cleanTranscript(q.userAnswer || ''): rawText.replace exists on strings only
cleanThrows(q) == Truthy(q.userAnswer) /\ q.userAnswer.t # "string"

cleanedQuestions(questions) ==
    map(questions, LAMBDA q, i :
        [expectedConcepts |-> q.expectedConcepts,
         userAnswer |-> q.userAnswer,
         cleanedAnswer |-> IF Truthy(q.userAnswer) /\ ~cleanThrows(q)
                           THEN cleanTranscript(q.userAnswer.s)
                           ELSE ""])

\* does the try block of evaluateInterview raise: in the cleaning of the questions,
\* or in the analysis of the cleaned questions
scoringThrows(questions, cleaned) ==
    \/ \E i \in DOMAIN questions : cleanThrows(questions[i])
    \/ \E i \in DOMAIN cleaned : analyzeSingleThrows(cleaned[i])

noReport == <<>>

\* the try block and the catch block of evaluateInterview, after its guard
scoreOrFallBack(sd, cleaned) ==
    IF ~scoringThrows(sd.questions, cleaned)
    THEN [outcome |-> "returned", path |-> "scored",
          report |-> generateIntelligentReport(analyzeAllAnswers(sd.role, cleaned))]
    ELSE IF ~someLacksExamplesThrows(fallbackAnalyses(sd.questions))
    THEN [outcome |-> "returned", path |-> "fallback",
          report |-> getFallbackEvaluation(sd.questions)]
    ELSE [outcome |-> "threw", path |-> "fallback", report |-> noReport]

evaluateInterview(sd) ==
    IF sd.t = "null" \/ Len(sd.questions) = 0
    THEN [outcome |-> "returned", path |-> "empty", report |-> getEmptyEvaluation]
    ELSE scoreOrFallBack(sd, cleanedQuestions(sd.questions))

(***************************************************************************)
(* StorageService: the history kept in                                     *)
(* localStorage['interview_trainer_history']                               *)
(*                                                                         *)
(* A record in memory is [id, role, score]; score is a tagged JS value,     *)
(* role is the role string ("" for a record without one).  The stored      *)
(* item is [t, v]: absent, the JSON text of an array of records ("array"), *)
(* the JSON text of an object ("object"), or no JSON at all ("corrupt").   *)
(***************************************************************************)
maxHistoryItems == 50

Num(n) == [t |-> "number", n |-> n]
NaNValue == [t |-> "NaN", n |-> 0]
Undefined == [t |-> "undefined", n |-> 0]
JsonNull == [t |-> "null", n |-> 0]
Omitted == [t |-> "omitted", n |-> 0]

\* JSON.stringify of a field: NaN is written as null, an undefined field is left out
stringifyValue(v) ==
    IF v.t = "NaN" THEN JsonNull
    ELSE IF v.t = "undefined" THEN Omitted
    ELSE v

\* JSON.parse of a field: a field that is left out reads as undefined
parseValue(j) == IF j.t = "omitted" THEN Undefined ELSE j

JSONstringify(value) ==
    [t |-> value.t,
     v |-> map(value.v, LAMBDA r, i : [id |-> r.id, role |-> r.role, score |-> stringifyValue(r.score)])]

\* JSON.parse raises a SyntaxError on a text that is no JSON
parseThrows(text) == text.t = "corrupt"

JSONparse(text) ==
    [t |-> text.t,
     v |-> map(text.v, LAMBDA r, i : [id |-> r.id, role |-> r.role, score |-> parseValue(r.score)])]

AbsentItem == [t |-> "absent", v |-> <<>>]
CorruptItem == [t |-> "corrupt", v |-> <<>>]
ObjectItem == [t |-> "object", v |-> <<>>]
EmptyArray == [t |-> "array", v |-> <<>>]

\* data ? JSON.parse(data) : [], and [] when parsing raises
getHistory(item) ==
    IF item.t = "absent" \/ parseThrows(item) THEN EmptyArray ELSE JSONparse(item)

\* 'int_' + Date.now() + '_' + random suffix: an id no earlier call produced
generateId(n) == "int_" \o ToString(n)

\* the history without a limit
keepAll(history) == history

\* if (history.length > this.maxHistoryItems) history = history.slice(0, this.maxHistoryItems)
limitHistory(history) ==
    IF Len(history) > maxHistoryItems THEN SubSeq(history, 1, maxHistoryItems) ELSE history

\* saveInterview(interviewData); quota: localStorage.setItem raises QuotaExceededError.
\* unshift on a history that is no array raises a TypeError.
saveInterview(item, interviewData, freshId, quota) ==
    LET history == getHistory(item)
        newInterview == [id |-> IF interviewData.id # "" THEN interviewData.id ELSE freshId,
                         role |-> interviewData.role,
                         score |-> interviewData.score]
    IN IF history.t # "array" \/ quota
       THEN [storage |-> item, returned |-> "null", id |-> ""]
       ELSE [storage |-> JSONstringify([t |-> "array",
                                        v |-> limitHistory(<<newInterview>> \o history.v)]),
             returned |-> "record", id |-> newInterview.id]

\* deleteInterview as the spec words it: false when no record has the id
deleteInterviewReportingAbsence(item, id, quota) ==
    LET history == getHistory(item)
        found == history.t = "array" /\ \E k \in DOMAIN history.v : history.v[k].id = id
    IN IF ~found \/ quota
       THEN [storage |-> item, returned |-> "false"]
       ELSE [storage |-> JSONstringify([t |-> "array",
                                        v |-> SelectSeq(history.v, LAMBDA r : r.id # id)]),
             returned |-> "true"]

RECURSIVE withoutFirst(_, _)
\* the history without the first record that has the id
withoutFirst(history, id) ==
    IF history = <<>> THEN <<>>
    ELSE IF Head(history).id = id THEN Tail(history)
    ELSE <<Head(history)>> \o withoutFirst(Tail(history), id)

\* history.filter(item => item.id !== id)
filterOut(history, id) == SelectSeq(history, LAMBDA item : item.id # id)

\* deleteInterview(id); filter on a history that is no array raises a TypeError
deleteInterview(item, id, quota) ==
    LET history == getHistory(item)
    IN IF history.t # "array" \/ quota
       THEN [storage |-> item, returned |-> "false"]
       ELSE [storage |-> JSONstringify([t |-> "array", v |-> filterOut(history.v, id)]),
             returned |-> "true"]

\* clearHistory()
clearHistory(item, quota) ==
    IF quota THEN [storage |-> item, returned |-> "false"]
    ELSE [storage |-> JSONstringify(EmptyArray), returned |-> "true"]

\* the file exportData hands to the browser: JSON.stringify({history, exportDate, version})
NoFile == [t |-> "absent", history |-> AbsentItem]
exportData(item) == [t |-> "file", history |-> JSONstringify(getHistory(item))]

\* importData that adds the file's records to the stored ones
importDataMerging(item, jsonData, quota) ==
    IF jsonData.t # "file" \/ jsonData.history.t # "array" \/ quota
    THEN [storage |-> item, returned |-> "false"]
    ELSE [storage |-> JSONstringify([t |-> "array",
                                     v |-> JSONparse(jsonData.history).v \o getHistory(item).v]),
          returned |-> "true"]

\* importData(jsonData): JSON.parse raises on a text that is no JSON; data.history
\* must be truthy and an array
importData(item, jsonData, quota) ==
    IF jsonData.t # "file" \/ jsonData.history.t # "array" \/ quota
    THEN [storage |-> item, returned |-> "false"]
    ELSE [storage |-> JSONstringify(JSONparse(jsonData.history)), returned |-> "true"]

\* i.score || 0
scoreOrZero(r) == IF r.score.t = "number" THEN r.score.n ELSE 0

PlusInfinity == [t |-> "Infinity", n |-> 0]
MinusInfinity == [t |-> "-Infinity", n |-> 0]

\* Math.max(...scores) of a non-empty list
MaxOf(scores) == CHOOSE x \in {scores[k] : k \in DOMAIN scores} :
                     \A k \in DOMAIN scores : scores[k] <= x

\* Math.round(((recentAvg - previousAvg) / previousAvg) * 100) for the sums and
\* lengths of the two windows; x / 0 is NaN for x = 0 and an infinity otherwise
trendOf(recentSum, recentLen, previousSum, previousLen) ==
    LET num == (recentSum * previousLen - previousSum * recentLen) * 100
        den == previousSum * recentLen
    IN IF previousSum = 0
       THEN (IF recentSum = 0 THEN NaNValue
             ELSE IF recentSum > 0 THEN PlusInfinity ELSE MinusInfinity)
       ELSE IF den > 0 THEN Num(Round(num, den))
       ELSE Num(Round(-num, -den))

\* a previous window that exists only once ten scores are stored
previousFiveOrNone(scores) == IF Len(scores) >= 10 THEN SubSeq(scores, 6, 10) ELSE <<>>

\* scores.slice(0, 5) and scores.slice(5, 10)
recentWindow(scores) == SubSeq(scores, 1, Min(5, Len(scores)))
previousWindow(scores) == SubSeq(scores, 6, Min(10, Len(scores)))

\* getStats(): history.map on a history that is no array raises a TypeError, which
\* getStats does not catch
getStats(item) ==
    LET history == getHistory(item)
        scores == map(history.v, LAMBDA r, i : scoreOrZero(r))
        totalInterviews == Len(scores)
        recentScores == recentWindow(scores)
        previousScores == previousWindow(scores)
    IN IF history.t # "array"
       THEN [returned |-> "threw", stats |-> <<>>]
       ELSE IF totalInterviews = 0
       THEN [returned |-> "stats",
             stats |-> [totalInterviews |-> 0, averageScore |-> 0, bestScore |-> 0,
                        recentTrend |-> Num(0)]]
       ELSE [returned |-> "stats",
             stats |-> [totalInterviews |-> totalInterviews,
                        averageScore |-> Round(SeqSum(scores), totalInterviews),
                        bestScore |-> MaxOf(scores),
                        recentTrend |->
                            IF Len(previousScores) > 0
                            THEN trendOf(SeqSum(recentScores), Len(recentScores),
                                         SeqSum(previousScores), Len(previousScores))
                            ELSE Num(0)]]

NoCall == [op |-> "none", arg |-> <<>>, id |-> "", returned |-> "", quota |-> FALSE,
           before |-> AbsentItem, stats |-> <<>>]

(***************************************************************************)
(* Inputs of the evaluation: answers built from a small vocabulary, longer *)
(* answers padded with plain words, and sessions of up to MaxQuestions     *)
(* questions                                                               *)
(***************************************************************************)
MaxTokens == 3
MaxPad == 30
MaxQuestions == 3

Vocabulary == {"um", " ", ".", "bias", "-variance", "such as"}

RECURSIVE TextsOfLen(_)
TextsOfLen(n) ==
    IF n = 0 THEN {""} ELSE {t \o v : t \in TextsOfLen(n - 1), v \in Vocabulary}

SmallTexts == UNION {TextsOfLen(n) : n \in 0..MaxTokens}

RECURSIVE Padded(_, _)
Padded(base, k) == IF k = 0 THEN base ELSE Padded(base, k - 1) \o " ok"

RichBases == {"bias", "Bias such as python", "first, bias such as python"}

PaddedTexts == {Padded(b, k) : b \in RichBases, k \in 0..MaxPad}

AnswerInputs == {Null, NonString} \cup {Str(t) : t \in SmallTexts \cup PaddedTexts}

ConceptLists ==
    { <<>>,
      <<Str("bias")>>,
      <<Str("bias"), Str("variance")>>,
      <<Str("bias"), Str("variance"), Str("overfitting")>>,
      <<NonString>> }

RoleInputs == {"", "Frontend Developer"}

Question(concepts, answer) == [expectedConcepts |-> concepts, userAnswer |-> answer]

Session(role, questions) == [t |-> "session", role |-> role, questions |-> questions]

NoSession == [t |-> "null", role |-> "", questions |-> <<>>]

SingleSessions ==
    {Session(r, <<Question(c, a)>>) : r \in RoleInputs, c \in ConceptLists, a \in AnswerInputs}

QuestionPool ==
    { Question(<<Str("bias")>>, Str("first, bias such as python")),
      Question(<<Str("bias"), Str("variance")>>, Str("bias such as")),
      Question(<<Str("variance")>>, Str("um bias")),
      Question(<<Str("bias")>>, Null),
      Question(<<Str("bias")>>, Str("um")),
      Question(<<NonString>>, Str("bias")),
      Question(<<>>, NonString) }

RECURSIVE QuestionLists(_)
QuestionLists(n) ==
    IF n = 0 THEN {<<>>}
    ELSE {Append(l, q) : l \in QuestionLists(n - 1), q \in QuestionPool}

PoolSessions ==
    {Session("", l) : l \in UNION {QuestionLists(n) : n \in 0..MaxQuestions}}

\* four answers to one concept whose scores are 49, 50, 79 and 80
BoundarySession ==
    Session("", << Question(<<Str("bias")>>, Str(Padded("bias", 12))),
                   Question(<<Str("bias")>>, Str(Padded("bias", 14))),
                   Question(<<Str("bias")>>, Str(Padded("Bias such as python", 9))),
                   Question(<<Str("bias")>>, Str(Padded("Bias such as python", 11))) >>)

\* two expected concepts and an answer that names them as "bias-variance"
TradeoffAnswer ==
    "The bias-variance tradeoff means... for example, high bias models underfit."

TradeoffSessions ==
    {Session(r, <<Question(<<Str("bias"), Str("variance")>>, Str(TradeoffAnswer))>>) :
        r \in RoleInputs}

SessionInputs ==
    {NoSession, BoundarySession} \cup SingleSessions \cup PoolSessions \cup TradeoffSessions

NoEvaluation == [outcome |-> "none", path |-> "none", report |-> noReport]

(***************************************************************************)
(* InterviewEngine (the session controller)                                *)
(*                                                                         *)
(* The handlers run one at a time.  startInterview is suspended while the  *)
(* remote service is asked; every other await resumes before the next      *)
(* event is handled, so those handlers are single steps.                   *)
(*                                                                         *)
(* The page (interview.html, its style sheet) and the speech device        *)
(* (voice.js) are not part of the sources: a button is taken to accept     *)
(* clicks while its phase is the active one and it is not disabled, the     *)
(* submit-voice and next buttons to start disabled, and the speech device  *)
(* to deliver transcripts while it is listening.                           *)
(***************************************************************************)
\* the startInterview call whose questions this.state.questions holds: the session id
\* it generated, the role it asked questions for, and whether it was made while an
\* earlier call was suspended (kept for the properties only)
NoCallOrigin == [sessionId |-> "", role |-> "", reentrant |-> FALSE]

\* this.state after the constructor; sessionId "" stands for null
InitialState ==
    [role |-> "Data Scientist",
     totalQuestions |-> 5,
     currentIndex |-> 0,
     questions |-> <<>>,
     answers |-> <<>>,
     status |-> "setup",
     sessionId |-> "",
     questionsFrom |-> NoCallOrigin]

\* the page as loaded: the setup phase, no question, no report
InitialDom ==
    [phase |-> "setup",
     submitAnswerBtn |-> "disabled",
     submitTextBtn |-> "enabled",
     nextQuestionBtn |-> "disabled",
     currentQuestion |-> "",
     evaluationContent |-> "hidden"]

NoEvent ==
    [op |-> "none", index |-> 0, raised |-> FALSE, source |-> "", note |-> "", quota |-> FALSE]

NoBudget == [starts |-> 0, answers |-> 0]

\* no interview is going on
CtrlIdle ==
    /\ state = InitialState
    /\ sessionTranscript = ""
    /\ isRecording = FALSE
    /\ isListening = FALSE
    /\ sessionItem = NoSession
    /\ dom = InitialDom
    /\ pendingCalls = <<>>
    /\ useMockData = TRUE
    /\ lastEvent = NoEvent
    /\ budget = NoBudget

(***************************************************************************)
(* The evaluation as a state machine: one call per behaviour               *)
(***************************************************************************)
StoreIdle ==
    /\ storage = AbsentItem
    /\ nextId = 0
    /\ lastOp = NoCall
    /\ exported = NoFile
    /\ savesLeft = 0
    /\ callsLeft = 0

EvalInit ==
    /\ CtrlIdle
    /\ sessionData \in SessionInputs
    /\ evaluation = NoEvaluation
    /\ StoreIdle

\* await this.ai.evaluateInterview(sessionData)
EvaluateInterview ==
    /\ evaluation.outcome = "none"
    /\ evaluation' = evaluateInterview(sessionData)
    /\ UNCHANGED <<sessionData, storeVars, ctrlVars>>

\* generateIntelligentReport called as a unit on the first n analyses of the session
GenerateReport ==
    /\ evaluation.outcome = "none"
    /\ LET cleaned == cleanedQuestions(sessionData.questions)
           analyses == analyzeAllAnswers(sessionData.role, cleaned)
       IN /\ ~scoringThrows(sessionData.questions, cleaned)
          /\ \E n \in 0..Len(analyses) :
                evaluation' = [outcome |-> "returned", path |-> "direct",
                               report |-> generateIntelligentReport(SubSeq(analyses, 1, n))]
    /\ UNCHANGED <<sessionData, storeVars, ctrlVars>>

EvalNext == EvaluateInterview \/ GenerateReport

EvalSpec == EvalInit /\ [][EvalNext]_vars

(***************************************************************************)
(* The history store as a state machine.  Every call records its name, its *)
(* argument, what it returned and the storage item it found.  A run makes  *)
(* savesLeft successful saves of the usual record and callsLeft other      *)
(* calls; a failing storage write counts among the other calls.            *)
(***************************************************************************)
MaxSaves == 52
MaxOddSaves == 1
MaxStoreSaves == 3
MaxStoreCalls == 3

PlainInterview == [id |-> "", role |-> "", score |-> Num(70)]

InterviewInputs ==
    { PlainInterview,
      [id |-> "session_1", role |-> "Data Scientist", score |-> Num(40)],
      [id |-> "", role |-> "", score |-> NaNValue],
      [id |-> "", role |-> "", score |-> Undefined] }

DeleteInputs == {"session_1", "int_0", "int_1", "int_none"}

CorruptFile == [t |-> "corrupt", history |-> AbsentItem]
FileWithoutHistory == [t |-> "file", history |-> AbsentItem]

\* a file of maxHistoryItems + 1 records
OversizeFile ==
    [t |-> "file",
     history |-> [t |-> "array",
                  v |-> ArrayOf([i \in 1..(maxHistoryItems + 1) |->
                                    [id |-> "old_" \o ToString(i), role |-> "", score |-> Num(60)]],
                                maxHistoryItems + 1)]]

ImportInputs ==
    {CorruptFile, FileWithoutHistory, OversizeFile}
        \cup (IF exported.t = "file" THEN {exported} ELSE {})

EvalIdle == sessionData = NoSession /\ evaluation = NoEvaluation

\* a call other than a successful save of the usual record
OtherCall(op, arg, id, quota, result) ==
    /\ callsLeft > 0
    /\ callsLeft' = callsLeft - 1
    /\ storage' = result.storage
    /\ lastOp' = [op |-> op, arg |-> arg, id |-> id, returned |-> result.returned,
                  quota |-> quota, before |-> storage, stats |-> <<>>]

\* initialize(): creates the item when it does not exist; a failing write raises
Initialize ==
    \E quota \in BOOLEAN :
        /\ quota => callsLeft > 0
        /\ callsLeft' = IF quota THEN callsLeft - 1 ELSE callsLeft
        /\ storage' = IF storage.t = "absent" /\ ~quota
                      THEN JSONstringify(EmptyArray) ELSE storage
        /\ lastOp' = [op |-> "initialize", arg |-> <<>>, id |-> "",
                      returned |-> IF storage.t = "absent" /\ quota
                                   THEN "threw" ELSE "undefined",
                      quota |-> quota, before |-> storage, stats |-> <<>>]
        /\ UNCHANGED <<nextId, exported, savesLeft, evalVars, ctrlVars>>

SaveInterview ==
    \E interviewData \in InterviewInputs, quota \in BOOLEAN :
        LET result == saveInterview(storage, interviewData, generateId(nextId), quota)
            usual == interviewData = PlainInterview /\ result.returned = "record"
        IN /\ IF usual THEN savesLeft > 0 ELSE callsLeft > 0
           /\ savesLeft' = IF usual THEN savesLeft - 1 ELSE savesLeft
           /\ callsLeft' = IF usual THEN callsLeft ELSE callsLeft - 1
           /\ storage' = result.storage
           /\ nextId' = IF interviewData.id = "" THEN nextId + 1 ELSE nextId
           /\ lastOp' = [op |-> "saveInterview", arg |-> interviewData, id |-> result.id,
                         returned |-> result.returned, quota |-> quota, before |-> storage,
                         stats |-> <<>>]
           /\ UNCHANGED <<exported, evalVars, ctrlVars>>

DeleteInterview ==
    \E id \in DeleteInputs, quota \in BOOLEAN :
        /\ OtherCall("deleteInterview", id, id, quota, deleteInterview(storage, id, quota))
        /\ UNCHANGED <<nextId, exported, savesLeft, evalVars, ctrlVars>>

ClearHistory ==
    \E quota \in BOOLEAN :
        /\ OtherCall("clearHistory", <<>>, "", quota, clearHistory(storage, quota))
        /\ UNCHANGED <<nextId, exported, savesLeft, evalVars, ctrlVars>>

ExportData ==
    /\ OtherCall("exportData", <<>>, "", FALSE, [storage |-> storage, returned |-> "undefined"])
    /\ exported' = exportData(storage)
    /\ UNCHANGED <<nextId, savesLeft, evalVars, ctrlVars>>

ImportData ==
    \E jsonData \in ImportInputs, quota \in BOOLEAN :
        /\ OtherCall("importData", jsonData, "", quota, importData(storage, jsonData, quota))
        /\ UNCHANGED <<nextId, exported, savesLeft, evalVars, ctrlVars>>

\* getStats(): reads the history and changes nothing
GetStats ==
    /\ lastOp' = [op |-> "getStats", arg |-> <<>>, id |-> "",
                  returned |-> getStats(storage).returned, quota |-> FALSE,
                  before |-> storage, stats |-> getStats(storage).stats]
    /\ UNCHANGED <<storage, nextId, exported, savesLeft, callsLeft, evalVars, ctrlVars>>

\* saves only, from a store that holds nothing
SaveInit ==
    /\ CtrlIdle
    /\ EvalIdle
    /\ storage = AbsentItem
    /\ nextId = 0
    /\ lastOp = NoCall
    /\ exported = NoFile
    /\ savesLeft = MaxSaves
    /\ callsLeft = MaxOddSaves

SaveNext == Initialize \/ SaveInterview

SaveSpec == SaveInit /\ [][SaveNext]_vars

\* every operation of the store, from an item that is absent, unreadable or no list
StoreInit ==
    /\ CtrlIdle
    /\ EvalIdle
    /\ storage \in {AbsentItem, CorruptItem, ObjectItem}
    /\ nextId = 0
    /\ lastOp = NoCall
    /\ exported = NoFile
    /\ savesLeft = MaxStoreSaves
    /\ callsLeft = MaxStoreCalls

StoreNext ==
    \/ Initialize
    \/ SaveInterview
    \/ DeleteInterview
    \/ ClearHistory
    \/ ExportData
    \/ ImportData
    \/ GetStats

StoreSpec == StoreInit /\ [][StoreNext]_vars

(***************************************************************************)
(* getStats on stored histories: every list of up to MaxStatsRecords       *)
(* records whose scores are drawn from StatsScores, newest first           *)
(***************************************************************************)
MaxStatsRecords == 11

StatsScores == {0, 90}

RECURSIVE ScoreLists(_)
ScoreLists(n) ==
    IF n = 0 THEN {<<>>}
    ELSE {Append(l, x) : l \in ScoreLists(n - 1), x \in StatsScores}

\* the item after the scores were saved, the last of them first
HistoryItemOf(scores) ==
    [t |-> "array",
     v |-> ArrayOf([i \in DOMAIN scores |->
                      [id |-> generateId(Len(scores) - i), role |-> "",
                       score |-> Num(scores[i])]],
                   Len(scores))]

StatsInit ==
    /\ CtrlIdle
    /\ EvalIdle
    /\ storage \in {HistoryItemOf(l) : l \in UNION {ScoreLists(n) : n \in 0..MaxStatsRecords}}
    /\ nextId = Len(storage.v)
    /\ lastOp = NoCall
    /\ exported = NoFile
    /\ savesLeft = 0
    /\ callsLeft = 0

StatsNext == GetStats

StatsSpec == StatsInit /\ [][StatsNext]_vars

(***************************************************************************)
(* AIService: the question source                                          *)
(* A question is [question, expectedConcepts]; the difficulty it carries   *)
(* is read by nothing.  Math.random is a nondeterministic choice: the      *)
(* shuffle of generateMockQuestions may produce any permutation.           *)
(***************************************************************************)
MockQuestion(text, concepts) ==
    [question |-> text, expectedConcepts |-> map(concepts, LAMBDA c, i : Str(c))]

\* the table of generateMockQuestions: mockQuestions[role] || mockQuestions['Data Scientist']
mockQuestions(role) ==
    CASE role = "Frontend Developer" ->
           << MockQuestion("Explain React's virtual DOM and how it improves performance.",
                  <<"virtual DOM", "diffing", "reconciliation", "batching",
                    "performance optimization">>),
              MockQuestion("How would you optimize a slow-loading React application?",
                  <<"code splitting", "lazy loading", "memoization", "bundle optimization",
                    "caching">>),
              MockQuestion("Explain CSS specificity and how it affects styling.",
                  <<"selectors", "cascade", "inheritance", "importance", "inline styles">>) >>
      [] role = "Product Manager" ->
           << MockQuestion("How do you prioritize features when stakeholders have conflicting requirements?",
                  <<"value vs effort", "stakeholder management", "data-driven decisions",
                    "user impact", "strategic alignment">>),
              MockQuestion("Describe your process for validating a new product idea.",
                  <<"user research", "MVP", "prototyping", "feedback loops",
                    "market analysis">>) >>
      [] OTHER ->
           << MockQuestion("Explain the bias-variance tradeoff and how it affects model performance.",
                  <<"bias", "variance", "overfitting", "underfitting", "model complexity">>),
              MockQuestion("How would you handle imbalanced classes in a classification problem?",
                  <<"resampling", "SMOTE", "class weights", "evaluation metrics",
                    "cost-sensitive learning">>),
              MockQuestion("Explain the difference between L1 and L2 regularization.",
                  <<"lasso", "ridge", "feature selection", "sparsity",
                    "overfitting prevention">>),
              MockQuestion("Describe a project where you used cross-validation and why it was important.",
                  <<"k-fold", "validation", "overfitting", "model selection",
                    "bias reduction">>) >>

\* [...roleQuestions].sort(() => 0.5 - Math.random()) may produce any order of the
\* n questions; the random draws are inputs, taken here to leave the table in its
\* order or to reverse it.  The first k places of these orders:
Shuffles(n, k) == {[i \in 1..k |-> i], [i \in 1..k |-> n + 1 - i]}

followUp(q) == [q EXCEPT !.question = @ \o " (follow-up)"]

\* generateMockQuestions(role, difficulty, count, domainKeywords): the first
\* questions of the shuffled table, then follow-ups of the table in its own order
generateMockQuestions(role, count, shuffle) ==
    LET roleQuestions == mockQuestions(role)
        n == Len(roleQuestions)
    IN ArrayOf([k \in 1..count |->
                  IF k <= n THEN roleQuestions[shuffle[k]]
                  ELSE followUp(roleQuestions[((k - 1) % n) + 1])], count)

(***************************************************************************)
(* The answer of the remote service, as callLLMApi and parseQuestions see  *)
(* it.  kind: what fetch and response.json() produce; content: the text of *)
(* data.choices[0].message.content by what its first '[' to last ']'       *)
(* parses to after the tag and non-printable stripping of parseQuestions.  *)
(* An entry of a parsed array is null, a number, or an object whose        *)
(* question and expectedConcepts may be absent or of the wrong type.       *)
(***************************************************************************)
Absent == [t |-> "undefined", s |-> ""]

NoContent == [form |-> "none", entries |-> <<>>]

Failure(kind) == [kind |-> kind, content |-> NoContent]

Content(form, entries) == [kind |-> "content", content |-> [form |-> form, entries |-> entries]]

NullEntry == [t |-> "null", question |-> Absent, expectedConcepts |-> Absent]
NumberEntry == [t |-> "number", question |-> Absent, expectedConcepts |-> Absent]
ObjectEntry(question, concepts) ==
    [t |-> "object", question |-> question, expectedConcepts |-> concepts]

ConceptArray(concepts) == [t |-> "array", v |-> concepts]

\* sanitizeText(text): '' for a falsy value, else String(text) without tags, trimmed;
\* the texts of a parsed entry hold no tag any more, and String(42) is "42"
sanitizeText(text) ==
    IF Truthy(text) THEN trim(IF text.t = "string" THEN text.s ELSE "42") ELSE ""

\* q.question, (q.expectedConcepts || []).map raise a TypeError on a null entry and
\* on expectedConcepts that are truthy and no array
entryThrows(q) ==
    \/ q.t = "null"
    \/ q.t = "object" /\ q.expectedConcepts.t \notin {"undefined", "null", "array"}

parsedEntry(q) ==
    [question |-> sanitizeText(q.question),
     expectedConcepts |->
        IF q.expectedConcepts.t = "array"
        THEN map(q.expectedConcepts.v, LAMBDA c, i : Str(sanitizeText(c)))
        ELSE <<>>]

\* callLLMApi(prompt) raises: fetch rejects, the status is not OK, the body is no
\* JSON, or the body holds no choices[0].message
callLLMApiThrows(response) == response.kind # "content"

\* the try block of parseQuestions raises: no '[...]' in the text, JSON.parse
\* fails, or one of the first count entries raises
parseThrowsOn(content, count) ==
    \/ content.form \in {"noArray", "badJson"}
    \/ \E k \in 1..Min(count, Len(content.entries)) : entryThrows(content.entries[k])

\* parseQuestions(response, count): questions.slice(0, count).map(...), or the mock
\* set of the Data Scientist when the try block raises
parseQuestions(content, count, shuffle) ==
    IF parseThrowsOn(content, count)
    THEN generateMockQuestions("Data Scientist", count, shuffle)
    ELSE map(SubSeq(content.entries, 1, Min(count, Len(content.entries))),
             LAMBDA q, i : parsedEntry(q))

\* the role whose table generateIntelligentQuestions shuffles, "" when it
\* shuffles none
shuffledRole(role, count, mock, response) ==
    IF mock \/ callLLMApiThrows(response) THEN role
    ELSE IF parseThrowsOn(response.content, count) THEN "Data Scientist"
    ELSE ""

\* generateIntelligentQuestions(role, difficulty, count): without a key
\* (useMockData) the mock set of the role; with a key the parsed answer of the
\* service, or the mock set of the role when callLLMApi raises
generateIntelligentQuestions(role, count, mock, response, shuffle) ==
    IF mock \/ callLLMApiThrows(response)
    THEN generateMockQuestions(role, count, shuffle)
    ELSE parseQuestions(response.content, count, shuffle)

(***************************************************************************)
(* InterviewEngine: the handlers                                           *)
(***************************************************************************)
\* which clicks the page accepts
SetupClickable == dom.phase = "setup"
InterviewClickable(button) == dom.phase = "interview" /\ dom[button] = "enabled"
MicClickable == dom.phase = "interview"

Event(op, raised) ==
    [op |-> op, index |-> state.currentIndex, raised |-> raised, source |-> "", note |-> "",
     quota |-> FALSE]

\* initializeSessionInStorage: the session item written for the questions
initialSession(role, questions) ==
    Session(role, map(questions, LAMBDA q, i : Question(q.expectedConcepts, Null)))

\* displayCurrentQuestion raises a TypeError when there is no question at the index
displayThrows(questions, index) == index + 1 > Len(questions)

\* displayCurrentQuestion on the page: the question text, typed and spoken
displayed(d, questions, index) == [d EXCEPT !.currentQuestion = questions[index + 1].question]

\* generateSessionId(): 'int_' + Date.now() + '_' + random suffix
generateSessionId(n) == generateId(n)

\* updateSessionInStorage(answer): the item with the answer stored at the index, when
\* the item is a session that has a question there
updateSessionInStorage(item, index, answer) ==
    IF item.t = "session" /\ index + 1 <= Len(item.questions)
    THEN [item EXCEPT !.questions[index + 1].userAnswer = Str(answer)]
    ELSE item

\* the entry saveAnswer pushes; questionIndex is state.currentIndex at that moment
answerEntry(questionObj, index, answer) ==
    [questionIndex |-> index,
     question |-> questionObj.question,
     expectedConcepts |-> questionObj.expectedConcepts,
     answer |-> answer]

\* nextQuestion as it would be if it completed the interview at every question
completesAtOnce(currentIndex, totalQuestions) == FALSE

\* nextQuestion: if (this.state.currentIndex < this.state.totalQuestions - 1)
hasNextQuestion(currentIndex, totalQuestions) == currentIndex < totalQuestions - 1


\* nextQuestion after displayCurrentQuestion: nextQuestionBtn.disabled = true,
\* submitAnswerBtn.disabled = true
advanced(d) == [d EXCEPT !.nextQuestionBtn = "disabled", !.submitAnswerBtn = "disabled"]

\* saveAnswer on the page: both submit buttons disabled, the next button enabled
saved(d) ==
    [d EXCEPT !.submitAnswerBtn = "disabled", !.submitTextBtn = "disabled",
              !.nextQuestionBtn = "enabled"]

\* the sessionData the catch block of completeInterview builds from state.answers
sessionOfAnswers(answers) ==
    Session("", map(answers, LAMBDA a, i : Question(a.expectedConcepts, Str(a.answer))))

\* completeInterview as it would be without its last statement
keepItem(item) == item

\* localStorage.removeItem('ai_interview_session_v1')
removeItem(item) == NoSession

\* the record saveInterviewResult hands to the store
interviewDataOf(sessionId, role, report) ==
    [id |-> sessionId,
     role |-> role,
     score |-> IF report.overallScore = NaN THEN NaNValue ELSE Num(report.overallScore)]

(***************************************************************************)
(* The controller as a state machine                                       *)
(***************************************************************************)
MaxCount == 2
MaxStarts == 2
MaxReentrantAnswers == 1
MaxAnswers == 3

Roles == {"Data Scientist", "Product Manager"}
QuestionCounts == 1..MaxCount
Transcripts == {"", "um bias"}
TextInputs == {" ", " variance "}

RemoteQuestion == ObjectEntry(Str(" What is overfitting? "), ConceptArray(<<Str("bias"), Str("variance")>>))
Entries ==
    { RemoteQuestion,
      ObjectEntry(Absent, Absent),
      ObjectEntry(Str("What is bias?"), NonString),
      NullEntry,
      NumberEntry }

MaxEntries == 2

RECURSIVE EntryLists(_)
EntryLists(n) ==
    IF n = 0 THEN {<<>>} ELSE {Append(l, e) : l \in EntryLists(n - 1), e \in Entries}

Responses ==
    {Failure(k) : k \in {"networkError", "notOk", "bodyNotJson", "noChoices"}}
      \cup {Content("noArray", <<>>), Content("badJson", <<>>)}
      \cup {Content("array", l) : l \in UNION {EntryLists(n) : n \in 0..MaxEntries}}
      \cup {Content("array", <<RemoteQuestion, RemoteQuestion, RemoteQuestion>>)}

NoResponse == Failure("none")

\* the shuffles of the table of a role that differ in the count questions taken;
\* one stand-in when no table is shuffled
ShufflesFor(role, count) ==
    IF role = "" THEN {<<>>}
    ELSE Shuffles(Len(mockQuestions(role)), Min(count, Len(mockQuestions(role))))

\* where the questions of a call come from: its parsed answer, or the mock set
sourceOf(role, count, mock, response) ==
    IF shuffledRole(role, count, mock, response) = "" THEN "parsed" ELSE "mock"

\* an entry the service is asked for: an object with a question text
wellFormed(q) == q.t = "object" /\ Truthy(q.question)

\* the outcome of the question source, as the call sees it
answerClass(mock, response, count) ==
    IF mock THEN "noKey"
    ELSE IF callLLMApiThrows(response) THEN response.kind
    ELSE IF response.content.form # "array" THEN response.content.form
    ELSE IF response.content.entries = <<>> THEN "emptyArray"
    ELSE IF \E k \in 1..Min(count, Len(response.content.entries)) :
               ~wellFormed(response.content.entries[k]) THEN "malformedEntries"
    ELSE "questions"

\* what a call of generateIntelligentQuestions may resolve to
QuestionsFor(role, count, mock, responses) ==
    UNION { { [role |-> role, count |-> count,
               questions |-> generateIntelligentQuestions(role, count, mock, response, shuffle),
               source |-> sourceOf(role, count, mock, response),
               answer |-> answerClass(mock, response, count)] :
                 shuffle \in ShufflesFor(shuffledRole(role, count, mock, response), count) } :
            response \in responses }

\* the calls the page can make, and what each may resolve to without and with a key
Calls == {[role |-> role, count |-> count] :
             role \in Roles, count \in QuestionCounts \cup {InitialState.totalQuestions}}

MockOutcomes == UNION {QuestionsFor(c.role, c.count, TRUE, {NoResponse}) : c \in Calls}

RemoteOutcomes == UNION {QuestionsFor(c.role, c.count, FALSE, Responses) : c \in Calls}

OutcomesOf(outcomes, role, count) == {q \in outcomes : q.role = role /\ q.count = count}

StoreUntouched == UNCHANGED <<storage, lastOp, exported, savesLeft, callsLeft>>

\* roleSelect 'change' (a role other than 'Other')
SelectRole ==
    /\ SetupClickable
    /\ \E role \in Roles : state' = [state EXCEPT !.role = role]
    /\ lastEvent' = Event("selectRole", FALSE)
    /\ UNCHANGED <<sessionTranscript, isRecording, isListening, sessionItem, dom,
                   pendingCalls, useMockData, budget, nextId, evalVars>>
    /\ StoreUntouched

\* questionCount 'change': this.state.totalQuestions = parseInt(e.target.value)
SetQuestionCount ==
    /\ SetupClickable
    /\ \E n \in QuestionCounts : state' = [state EXCEPT !.totalQuestions = n]
    /\ lastEvent' = Event("setQuestionCount", FALSE)
    /\ UNCHANGED <<sessionTranscript, isRecording, isListening, sessionItem, dom,
                   pendingCalls, useMockData, budget, nextId, evalVars>>
    /\ StoreUntouched

\* startInterview from the assignment of this.state.questions on:
\* initializeSessionInStorage, switchPhase, displayCurrentQuestion, updateProgress
QuestionsReady(st, call, questions, source, answer) ==
    /\ state' = [st EXCEPT !.questions = questions,
                           !.questionsFrom = [sessionId |-> call.sessionId, role |-> call.role,
                                              reentrant |-> call.reentrant]]
    /\ sessionItem' = initialSession(st.role, questions)
    /\ IF displayThrows(questions, st.currentIndex)
       THEN /\ dom' = [dom EXCEPT !.phase = "interview"]
            /\ lastEvent' = [Event("startInterview", TRUE) EXCEPT !.source = source,
                                                                  !.note = answer]
            /\ UNCHANGED <<sessionTranscript, isRecording, isListening>>
       ELSE /\ dom' = displayed([dom EXCEPT !.phase = "interview"], questions, st.currentIndex)
            /\ lastEvent' = [Event("startInterview", FALSE) EXCEPT !.source = source,
                                                                   !.note = answer]
            /\ sessionTranscript' = ""
            /\ isRecording' = FALSE
            /\ isListening' = FALSE

\* startSessionBtn 'click': startInterview up to the answer of the question source.
\* Without a key the answer is there at once; with a key the call is suspended.
StartInterview ==
    /\ SetupClickable
    /\ nextId' = nextId + 1
    /\ LET st == [state EXCEPT !.status = "active",
                               !.sessionId = generateSessionId(nextId),
                               !.answers = <<>>,
                               !.currentIndex = 0]
       IN IF useMockData
          THEN /\ \E q \in OutcomesOf(MockOutcomes, st.role, st.totalQuestions) :
                     QuestionsReady(st, [role |-> st.role, sessionId |-> st.sessionId,
                                         reentrant |-> FALSE],
                                    q.questions, q.source, q.answer)
               /\ UNCHANGED pendingCalls
          ELSE /\ pendingCalls' = Append(pendingCalls,
                                        [role |-> st.role, count |-> st.totalQuestions,
                                         sessionId |-> st.sessionId,
                                         reentrant |-> pendingCalls # <<>>])
               /\ state' = st
               /\ sessionItem' = removeItem(sessionItem)
               /\ lastEvent' = Event("startInterview:await", FALSE)
               /\ UNCHANGED <<sessionTranscript, isRecording, isListening, dom>>
    /\ budget.starts > 0
    /\ budget' = [budget EXCEPT !.starts = @ - 1]
    /\ UNCHANGED <<useMockData, evalVars>>
    /\ StoreUntouched

\* the remote service answers a suspended call, calls in any order
QuestionsArrive ==
    /\ \E k \in DOMAIN pendingCalls :
          LET call == pendingCalls[k]
          IN /\ \E q \in OutcomesOf(RemoteOutcomes, call.role, call.count) :
                   QuestionsReady(state, call, q.questions, q.source, q.answer)
             /\ pendingCalls' = SubSeq(pendingCalls, 1, k - 1)
                                  \o SubSeq(pendingCalls, k + 1, Len(pendingCalls))
    /\ UNCHANGED <<useMockData, budget, nextId, evalVars>>
    /\ StoreUntouched

\* micButton 'click': toggleRecording
ToggleRecording ==
    /\ MicClickable
    /\ isRecording' = ~isRecording
    /\ isListening' = ~isRecording
    /\ lastEvent' = Event("toggleRecording", FALSE)
    /\ UNCHANGED <<state, sessionTranscript, sessionItem, dom, pendingCalls, useMockData,
                   budget, nextId, evalVars>>
    /\ StoreUntouched

\* the speech device reports an error: handleVoiceError
HandleVoiceError ==
    /\ isListening
    /\ isRecording' = FALSE
    /\ isListening' = FALSE
    /\ lastEvent' = Event("handleVoiceError", FALSE)
    /\ UNCHANGED <<state, sessionTranscript, sessionItem, dom, pendingCalls, useMockData,
                   budget, nextId, evalVars>>
    /\ StoreUntouched

\* the speech device delivers a transcript: handleContinuousTranscript
HandleContinuousTranscript ==
    /\ isListening
    /\ \E transcript \in Transcripts :
          /\ sessionTranscript' = IF transcript # "" THEN transcript ELSE sessionTranscript
          /\ dom' = IF trim(sessionTranscript') # ""
                    THEN [dom EXCEPT !.submitAnswerBtn = "enabled"]
                    ELSE dom
    /\ lastEvent' = Event("handleContinuousTranscript", FALSE)
    /\ UNCHANGED <<state, isRecording, isListening, sessionItem, pendingCalls, useMockData,
                   budget, nextId, evalVars>>
    /\ StoreUntouched

\* saveAnswer(answer); raises a TypeError when there is no question at the index
SaveAnswer(op, answer) ==
    /\ budget.answers > 0
    /\ budget' = [budget EXCEPT !.answers = @ - 1]
    /\ IF displayThrows(state.questions, state.currentIndex)
       THEN /\ lastEvent' = Event(op, TRUE)
            /\ UNCHANGED <<state, sessionItem, dom>>
       ELSE /\ state' = [state EXCEPT !.answers = Append(@,
                             answerEntry(state.questions[state.currentIndex + 1],
                                         state.currentIndex, answer))]
            /\ sessionItem' = updateSessionInStorage(sessionItem, state.currentIndex, answer)
            /\ dom' = saved(dom)
            /\ lastEvent' = Event(op, FALSE)

\* submitAnswerBtn 'click': submitVoiceAnswer
SubmitVoiceAnswer ==
    /\ InterviewClickable("submitAnswerBtn")
    /\ IF trim(sessionTranscript) # ""
       THEN /\ SaveAnswer("submitVoiceAnswer", sessionTranscript)
            /\ isRecording' = FALSE
            /\ isListening' = (isListening /\ ~isRecording)
       ELSE /\ lastEvent' = Event("submitVoiceAnswer", FALSE)
            /\ UNCHANGED <<state, sessionItem, dom, isRecording, isListening, budget>>
    /\ UNCHANGED <<sessionTranscript, pendingCalls, useMockData, nextId, evalVars>>
    /\ StoreUntouched

\* submitTextBtn 'click': submitTextAnswer with the text typed into textAnswer
SubmitTextAnswer ==
    /\ InterviewClickable("submitTextBtn")
    /\ \E value \in TextInputs :
          IF trim(value) # ""
          THEN /\ SaveAnswer("submitTextAnswer", trim(value))
               /\ IF displayThrows(state.questions, state.currentIndex)
                  THEN UNCHANGED <<isRecording, isListening>>
                  ELSE /\ isRecording' = FALSE
                       /\ isListening' = (isListening /\ ~isRecording)
          ELSE /\ lastEvent' = Event("submitTextAnswer", FALSE)
               /\ UNCHANGED <<state, sessionItem, dom, isRecording, isListening, budget>>
    /\ UNCHANGED <<sessionTranscript, pendingCalls, useMockData, nextId, evalVars>>
    /\ StoreUntouched

\* completeInterview: the session item is evaluated, the result saved and shown; when
\* that raises, the answers in memory are evaluated and shown; the item is removed
CompleteInterview ==
    \E first \in {IF sessionItem.t = "null" THEN NoEvaluation
                  ELSE evaluateInterview(sessionItem)} :
      LET tryThrows == sessionItem.t = "null" \/ first.outcome = "threw"
          fromAnswers == sessionOfAnswers(state.answers)
      IN \E shown \in {IF tryThrows THEN evaluateInterview(fromAnswers) ELSE first} :
            /\ state' = [state EXCEPT !.status = "evaluating"]
            /\ sessionData' = IF tryThrows THEN fromAnswers ELSE sessionItem
            /\ evaluation' = shown
            /\ \E quota \in IF tryThrows THEN {FALSE} ELSE BOOLEAN :
                  /\ IF tryThrows
                     THEN UNCHANGED <<storage, nextId>>
                     ELSE /\ storage' = saveInterview(storage,
                                            interviewDataOf(state.sessionId, state.role, first.report),
                                            generateId(nextId), quota).storage
                          /\ nextId' = nextId + 1
                  /\ lastEvent' =
                        [Event("completeInterview", shown.outcome = "threw") EXCEPT
                            !.source = IF tryThrows THEN "answers" ELSE "sessionItem",
                            !.note = IF sessionItem.t = "null" THEN "noSessionItem"
                                     ELSE IF tryThrows THEN "evaluateInterviewRaised"
                                     ELSE IF first.path = "fallback" THEN "scoringRaised"
                                     ELSE "",
                            !.quota = quota]
            /\ IF shown.outcome = "threw"
               THEN /\ dom' = [dom EXCEPT !.phase = "evaluation"]
                    /\ UNCHANGED sessionItem
               ELSE /\ dom' = [dom EXCEPT !.phase = "evaluation",
                                          !.evaluationContent = "shown"]
                    /\ sessionItem' = removeItem(sessionItem)
            /\ UNCHANGED <<sessionTranscript, isRecording, isListening>>

\* nextQuestionBtn 'click': nextQuestion
NextQuestion ==
    /\ InterviewClickable("nextQuestionBtn")
    /\ IF hasNextQuestion(state.currentIndex, state.totalQuestions)
       THEN /\ state' = [state EXCEPT !.currentIndex = @ + 1]
            /\ IF displayThrows(state.questions, state.currentIndex + 1)
               THEN /\ lastEvent' = Event("nextQuestion", TRUE)
                    /\ UNCHANGED <<dom, sessionTranscript, isRecording, isListening>>
               ELSE /\ dom' = advanced(displayed(dom, state.questions, state.currentIndex + 1))
                    /\ lastEvent' = Event("nextQuestion", FALSE)
                    /\ sessionTranscript' = ""
                    /\ isRecording' = FALSE
                    /\ isListening' = FALSE
            /\ UNCHANGED <<sessionItem, storage, nextId, evalVars>>
       ELSE CompleteInterview
    /\ UNCHANGED <<pendingCalls, useMockData, budget, lastOp, exported, savesLeft, callsLeft>>

\* the page is loaded: the constructor has run, with or without a key in
\* localStorage['openai_api_key']
SessionInit ==
    /\ state = InitialState
    /\ sessionTranscript = ""
    /\ isRecording = FALSE
    /\ isListening = FALSE
    /\ sessionItem = NoSession
    /\ dom = InitialDom
    /\ pendingCalls = <<>>
    /\ useMockData \in BOOLEAN
    /\ lastEvent = NoEvent
    /\ budget = [starts |-> 1, answers |-> MaxAnswers]
    /\ StoreIdle
    /\ EvalIdle

SessionNext ==
    \/ SelectRole
    \/ SetQuestionCount
    \/ StartInterview
    \/ QuestionsArrive
    \/ ToggleRecording
    \/ HandleVoiceError
    \/ HandleContinuousTranscript
    \/ SubmitVoiceAnswer
    \/ SubmitTextAnswer
    \/ NextQuestion

SessionSpec == SessionInit /\ [][SessionNext]_vars

\* the page with a key, and a user who types the answers and may click start again
\* while the remote service is asked
ReentrantInit ==
    /\ state = InitialState
    /\ sessionTranscript = ""
    /\ isRecording = FALSE
    /\ isListening = FALSE
    /\ sessionItem = NoSession
    /\ dom = InitialDom
    /\ pendingCalls = <<>>
    /\ useMockData = FALSE
    /\ lastEvent = NoEvent
    /\ budget = [starts |-> MaxStarts, answers |-> MaxReentrantAnswers]
    /\ StoreIdle
    /\ EvalIdle

ReentrantNext ==
    \/ SelectRole
    \/ SetQuestionCount
    \/ StartInterview
    \/ QuestionsArrive
    \/ SubmitTextAnswer
    \/ NextQuestion

ReentrantSpec == ReentrantInit /\ [][ReentrantNext]_vars

\* the last question of a session is answered.  The session item is in
\* localStorage, which every page of the origin can rewrite: it holds any session
\* data, or nothing.
CompleteInit ==
    /\ state = [InitialState EXCEPT
                  !.status = "active",
                  !.totalQuestions = 1,
                  !.questions = generateMockQuestions("Data Scientist", 1, <<1>>),
                  !.answers = <<answerEntry(generateMockQuestions("Data Scientist", 1, <<1>>)[1],
                                            0, "variance")>>,
                  !.sessionId = generateSessionId(0),
                  !.questionsFrom = [sessionId |-> generateSessionId(0),
                                     role |-> "Data Scientist", reentrant |-> FALSE]]
    /\ sessionTranscript = ""
    /\ isRecording = FALSE
    /\ isListening = FALSE
    /\ sessionItem \in SessionInputs
    /\ dom = saved(displayed([InitialDom EXCEPT !.phase = "interview"],
                             generateMockQuestions("Data Scientist", 1, <<1>>), 0))
    /\ pendingCalls = <<>>
    /\ useMockData = TRUE
    /\ lastEvent = Event("submitTextAnswer", FALSE)
    /\ budget = NoBudget
    /\ storage = AbsentItem
    /\ nextId = 1
    /\ lastOp = NoCall
    /\ exported = NoFile
    /\ savesLeft = 0
    /\ callsLeft = 0
    /\ EvalIdle

CompleteNext == NextQuestion

CompleteSpec == CompleteInit /\ [][CompleteNext]_vars

(***************************************************************************)
(* Properties of the scorer and the aggregator (EvalSpec)                  *)
(***************************************************************************)
Tiers == {"correct", "partial", "incorrect"}

\* the evaluation is a report that evaluateInterview returned
Evaluated ==
    evaluation.outcome = "returned" /\ evaluation.path \in {"scored", "empty", "fallback"}

questionAnalyses == evaluation.report.questionAnalyses

\* C1: every per-question analysis of a report returned by evaluateInterview, on
\* the scored, the empty and the fallback path, has an integer score from 0 to 100.
C1_ScoreInRange ==
    Evaluated => \A i \in DOMAIN questionAnalyses : questionAnalyses[i].score \in 0..100

\* a scored answer that collects every part of the score in full
C1_Witness ==
    /\ Evaluated /\ evaluation.path = "scored"
    /\ \E i \in DOMAIN questionAnalyses : questionAnalyses[i].score = 100

\* C2: the tier of every per-question analysis is determined by its score: correct
\* iff score >= 80, partial iff 50 <= score <= 79, incorrect iff score < 50.
C2_TierFromScore ==
    Evaluated =>
        \A i \in DOMAIN questionAnalyses :
            LET a == questionAnalyses[i]
            IN /\ a.correctness \in Tiers
               /\ a.correctness = "correct" <=> a.score >= 80
               /\ a.correctness = "partial" <=> (50 <= a.score /\ a.score <= 79)
               /\ a.correctness = "incorrect" <=> a.score < 50

\* one report holding the four boundary scores with their tiers
C2_Witness ==
    /\ Evaluated /\ evaluation.path = "scored"
    /\ [i \in DOMAIN questionAnalyses |-> questionAnalyses[i].score] = <<49, 50, 79, 80>>
    /\ [i \in DOMAIN questionAnalyses |-> questionAnalyses[i].correctness]
           = <<"incorrect", "partial", "partial", "correct">>

\* the output of the Transcript Normalizer on the text submitted for question i
cleanedAnswerOf(i) ==
    LET userAnswer == sessionData.questions[i].userAnswer
    IN IF Truthy(userAnswer) THEN cleanTranscript(userAnswer.s) ELSE ""

\* C3: whenever the cleaned answer is empty or whitespace-only, the analysis has
\* score 0 and tier incorrect, whatever the expected concepts and the raw text.
C3_EmptyCleanedAnswerScoresZero ==
    (Evaluated /\ evaluation.path = "scored") =>
        \A i \in DOMAIN questionAnalyses :
            trim(cleanedAnswerOf(i)) = "" =>
                /\ questionAnalyses[i].score = 0
                /\ questionAnalyses[i].correctness = "incorrect"

\* C4: aggregating zero analyses returns the fixed empty report (overallScore 0,
\* all tier counts 0, no entries) and divides nothing by zero, in the aggregator
\* itself as well as in evaluateInterview.
C4_EmptyAggregateIsEmptyReport ==
    (evaluation.outcome = "returned" /\ questionAnalyses = <<>>) =>
        /\ evaluation.report.overallScore = 0
        /\ evaluation.report.stats = [correct |-> 0, partial |-> 0, incorrect |-> 0]

\* C5: in every report the three tier counts add up to the number of per-question
\* analyses.
C5_TierCountsSumToAnalyses ==
    evaluation.outcome = "returned" =>
        LET stats == evaluation.report.stats
        IN stats.correct + stats.partial + stats.incorrect = Len(questionAnalyses)

\* a scored report of four analyses with every tier present
C5_Witness ==
    /\ Evaluated /\ evaluation.path = "scored"
    /\ Len(questionAnalyses) = 4
    /\ evaluation.report.stats = [correct |-> 1, partial |-> 2, incorrect |-> 1]

\* the answer the scorer received for question i, and its expected concepts
scoredAnswer(i) == questionAnalyses[i].cleanedAnswer.s

expectedConceptsOf(i) == sessionData.questions[i].expectedConcepts

\* the number of expected concepts the report does not list as missing
mentionedCount(i) == Len(expectedConceptsOf(i)) - Len(questionAnalyses[i].missingConcepts)

\* the concepts of question i found in the answer as case-insensitive substrings
SubstringMatches(i) ==
    {k \in DOMAIN expectedConceptsOf(i) :
        includes(toLowerCase(scoredAnswer(i)), toLowerCase(expectedConceptsOf(i)[k].s))}

ScoredTradeoff ==
    Evaluated /\ evaluation.path = "scored" /\ sessionData \in TradeoffSessions

\* C13 as stated: for the concepts bias and variance and the answer "The
\* bias-variance tradeoff means... for example, high bias models underfit." the
\* scorer counts 1 of 2 concepts (bias only), the concept sub-score is 20 and the
\* examples bonus is 15.
C13_TradeoffCountsBiasOnly ==
    ScoredTradeoff =>
        /\ mentionedCount(1) = 1
        /\ questionAnalyses[1].missingConcepts = <<Str("variance")>>
        /\ conceptScore(mentionedCount(1), 2) = <<40, 2>>
        /\ examplesScore(containsExamples(scoredAnswer(1))) = 15

\* C13: the number of concepts counted as mentioned is the number found in the
\* answer as case-insensitive substrings; the concept sub-score is
\* (mentioned / total) * 40, or 30 when no concepts are given, and it enters the
\* score with the other parts.  For the concepts bias and variance and the answer
\* "The bias-variance tradeoff means... for example, high bias models underfit."
\* both concepts are counted (variance inside "bias-variance"), the concept
\* sub-score is 40 and the examples bonus is 15.
C13_ConceptSubScore ==
    (Evaluated /\ evaluation.path = "scored") =>
        /\ \A i \in DOMAIN questionAnalyses :
              trim(scoredAnswer(i)) # "" =>
                LET total == Len(expectedConceptsOf(i))
                    cs == conceptScore(mentionedCount(i), total)
                IN /\ mentionedCount(i) = Cardinality(SubstringMatches(i))
                   /\ IF total = 0 THEN cs[1] = 30 * cs[2]
                      ELSE cs[1] * total = 40 * mentionedCount(i) * cs[2]
                   /\ questionAnalyses[i].score =
                         ScoreOf(mentionedCount(i), total, splitLength(scoredAnswer(i)),
                                 containsExamples(scoredAnswer(i)),
                                 hasStructure(scoredAnswer(i)),
                                 hasTechnicalTerms(scoredAnswer(i),
                                     IF sessionData.role = "" THEN defaultRole
                                     ELSE sessionData.role))
        /\ sessionData \in TradeoffSessions =>
              /\ mentionedCount(1) = 2
              /\ questionAnalyses[1].missingConcepts = <<>>
              /\ conceptScore(mentionedCount(1), 2) = <<80, 2>>
              /\ examplesScore(containsExamples(scoredAnswer(1))) = 15

\* the tradeoff answer scored: 40 + 10/15 * 10 + 15 rounds to 62
C13_Witness ==
    /\ ScoredTradeoff
    /\ questionAnalyses[1].missingConcepts = <<>>
    /\ questionAnalyses[1].score = 62

(***************************************************************************)
(* Properties of the history store (SaveSpec, StoreSpec)                   *)
(***************************************************************************)
\* the stored history, and the history the last call found
History == getHistory(storage).v
Before == getHistory(lastOp.before).v

IdsAndScores(history) == [k \in DOMAIN history |-> <<history[k].id, history[k].score>>]

\* C6: after any sequence of saves from an empty history at most 50 records are
\* stored; a save puts the new record first, followed by the (at most) 49 most
\* recently saved earlier records, so a save onto 50 records evicts only the oldest.
C6_SaveKeepsNewestFifty ==
    /\ Len(History) <= 50
    /\ (lastOp.op = "saveInterview" /\ lastOp.returned = "record") =>
           /\ History # <<>>
           /\ History[1].id = lastOp.id
           /\ Tail(History) = SubSeq(Before, 1, Min(Len(Before), 49))
    /\ (lastOp.op = "saveInterview" /\ lastOp.returned = "null") => History = Before

\* a save onto 50 stored records: 50 remain and the oldest is gone
C6_Witness ==
    /\ lastOp.op = "saveInterview" /\ lastOp.returned = "record"
    /\ Len(Before) = 50 /\ Len(History) = 50
    /\ \A k \in DOMAIN History : History[k].id # Before[50].id

\* C7: in every reachable state of the store, under any interleaving of
\* saveInterview, deleteInterview, clearHistory and importData, the stored history
\* has at most 50 records.
C7_HistoryWithinLimit == Len(History) <= 50

\* the last call was deleteInterview with an id that no stored record had
DeletedAbsentId ==
    /\ lastOp.op = "deleteInterview"
    /\ \A k \in DOMAIN Before : Before[k].id # lastOp.arg

\* the last call was deleteInterview with the id of a stored record
DeletedStoredId ==
    /\ lastOp.op = "deleteInterview"
    /\ \E k \in DOMAIN Before : Before[k].id = lastOp.arg

\* C8 as stated: deleteInterview with an id that no stored record has returns false
\* and leaves the stored history unchanged.
C8_DeleteAbsentReturnsFalse ==
    DeletedAbsentId => (lastOp.returned = "false" /\ History = Before)

\* C8 as the code has it: deleteInterview with an id that no stored record has leaves
\* the stored history unchanged and returns true; it returns false only when the
\* stored data is no list or the storage write fails.
C8_DeleteAbsentReturnsTrue ==
    DeletedAbsentId =>
        /\ History = Before
        /\ lastOp.returned \in {"true", "false"}
        /\ lastOp.returned = "false" <=> (getHistory(lastOp.before).t # "array" \/ lastOp.quota)

\* an absent id deleted from a history of several records
C8_Witness ==
    /\ DeletedAbsentId /\ lastOp.returned = "true"
    /\ Len(Before) >= 2 /\ History = Before

\* the number of records among the first k of the history that have the id
CountId(history, id, k) == Cardinality({j \in 1..k : history[j].id = id})

\* C9 as stated: a successful deleteInterview with the id of a stored record removes
\* exactly that one record; the others keep their content and order.
C9_DeleteRemovesOneRecord ==
    (DeletedStoredId /\ lastOp.returned = "true") =>
        \E k \in DOMAIN Before :
            /\ Before[k].id = lastOp.arg
            /\ History = SubSeq(Before, 1, k - 1) \o SubSeq(Before, k + 1, Len(Before))

\* C9 as the code has it: deleteInterview with the id of a stored record removes
\* every record that has that id; every other record keeps its content and its
\* relative order.  When the storage write fails it returns false and the history
\* is unchanged.
C9_DeleteRemovesEveryMatch ==
    DeletedStoredId =>
        IF lastOp.returned = "true"
        THEN /\ Len(History) = Len(Before) - CountId(Before, lastOp.arg, Len(Before))
             /\ \A k \in DOMAIN Before :
                    Before[k].id # lastOp.arg =>
                        History[k - CountId(Before, lastOp.arg, k)] = Before[k]
        ELSE lastOp.quota /\ History = Before

\* an id that two stored records share is deleted, and other records remain
C9_Witness ==
    /\ DeletedStoredId /\ lastOp.returned = "true"
    /\ CountId(Before, lastOp.arg, Len(Before)) = 2
    /\ Len(History) = Len(Before) - 2 /\ History # <<>>

\* the last call imported the file that exporting the history it found produces
ImportedOwnExport ==
    /\ lastOp.op = "importData"
    /\ lastOp.arg = exportData(lastOp.before)

\* C10: importing the file produced by exporting the current history leaves an
\* equivalent stored list: the same ids and scores in the same order.
C10_ImportOfExportIsSameList ==
    ImportedOwnExport => IdsAndScores(History) = IdsAndScores(Before)

\* a history of several records, one of them saved with a NaN score, is exported
\* and imported
C10_Witness ==
    /\ ImportedOwnExport /\ lastOp.returned = "true"
    /\ Len(Before) >= 2 /\ \E k \in DOMAIN Before : Before[k].score = JsonNull
    /\ IdsAndScores(History) = IdsAndScores(Before)

(***************************************************************************)
(* Properties of getStats (StatsSpec)                                      *)
(***************************************************************************)
GotStats == lastOp.op = "getStats" /\ lastOp.returned = "stats"

\* the scores getStats read, newest first, and the sum of those at positions lo..hi
BeforeScores ==
    [k \in DOMAIN Before |-> IF Before[k].score.t = "number" THEN Before[k].score.n ELSE 0]
SumOfScores(lo, hi) == SeqSum(SubSeq(BeforeScores, lo, Min(hi, Len(Before))))

\* k = Math.round(((rs / rl - ps / pl) / (ps / pl)) * 100), for ps > 0: the quotient
\* lies in [k - 1/2, k + 1/2)
IsRoundedTrend(k, rs, rl, ps, pl) ==
    /\ (2 * k - 1) * ps * rl <= 200 * (rs * pl - ps * rl)
    /\ 200 * (rs * pl - ps * rl) < (2 * k + 1) * ps * rl

C12_TrendIsFiniteInteger ==
    GotStats =>
        /\ lastOp.stats.recentTrend.t = "number"
        /\ (Len(Before) >= 6 /\ SumOfScores(6, 10) = 0) => lastOp.stats.recentTrend = Num(0)

(***************************************************************************)
(* Properties of the session controller (SessionSpec, ReentrantSpec,       *)
(* CompleteSpec)                                                           *)
(***************************************************************************)
\* C14: the status only moves setup -> active -> evaluating -> done: whatever the
\* user does, a step that changes the status goes from setup to active, or from
\* active to evaluating in completeInterview called by the advance from the last
\* question (index totalQuestions - 1), or from evaluating to done.
C14_StatusMovesForward ==
    [][state'.status # state.status =>
          \/ state.status = "setup" /\ state'.status = "active"
          \/ /\ state.status = "active" /\ state'.status = "evaluating"
             /\ lastEvent'.op = "completeInterview"
             /\ lastEvent'.index = state.totalQuestions - 1
          \/ state.status = "evaluating" /\ state'.status = "done"]_vars

\* a session of two questions is evaluating after both advances
C14_Witness ==
    /\ state.status = "evaluating"
    /\ state.totalQuestions = 2
    /\ lastEvent.op = "completeInterview"
    /\ lastEvent.index = 1

\* C15: a session that entered evaluating reaches done: once completeInterview
\* has run to its end (the evaluation scored, aggregated, saved and shown, on the
\* try path or on the catch path), the status is done.
C15_EvaluatedIsDone ==
    (lastEvent.op = "completeInterview" /\ ~lastEvent.raised) => state.status = "done"

\* the answers recorded for the question at an index
answersAt(index) == {k \in DOMAIN state.answers : state.answers[k].questionIndex = index}

\* C16: nextQuestion advances from question i, also from the last question into
\* evaluating, only when an answer for question i has been saved.
C16_AdvanceNeedsAnswer ==
    lastEvent.op \in {"nextQuestion", "completeInterview"} => answersAt(lastEvent.index) # {}

\* the question indexes of a session of the model
QuestionIndexes == 0..(InitialState.totalQuestions - 1)

\* the answer the session item holds for the question at an index, Null when none
userAnswerAt(item, index) ==
    IF item.t = "session" /\ index + 1 <= Len(item.questions)
    THEN item.questions[index + 1].userAnswer
    ELSE Null

Submits == {"submitVoiceAnswer", "submitTextAnswer"}

\* C17: there is one answer per question and it never changes: whatever the mic
\* toggles, transcripts and submits, state.answers holds at most one answer for
\* each question index, and a submit overwrites neither an answer in state.answers
\* nor a userAnswer recorded in the session item.
C17_OneAnswerPerQuestion ==
    [][/\ \A i \in QuestionIndexes : Cardinality(answersAt(i)') <= 1
       /\ lastEvent'.op \in Submits =>
             /\ \A k \in DOMAIN state.answers :
                   k \in DOMAIN state'.answers /\ state'.answers[k] = state.answers[k]
             /\ \A i \in QuestionIndexes :
                   userAnswerAt(sessionItem, i) # Null =>
                      userAnswerAt(sessionItem', i) = userAnswerAt(sessionItem, i)]_vars

\* C18: after startInterview has completed, the session holds exactly
\* state.totalQuestions questions, whether they are the parsed answer of the remote
\* service or the static mock set.
C18_HoldsConfiguredCount ==
    (lastEvent.op = "startInterview" /\ ~lastEvent.raised) =>
        Len(state.questions) = state.totalQuestions

\* the outcomes of the question source that give no usable questions
UnusableAnswers ==
    {"networkError", "notOk", "bodyNotJson", "noChoices", "noArray", "badJson",
     "emptyArray", "malformedEntries"}

\* startInterview has come to its end, with or without raising
Started == lastEvent.op = "startInterview"

\* C19: startInterview never fails outright: for a network error, a non-OK status,
\* a non-JSON text, malformed JSON, an empty array or an array with malformed
\* entries it takes the static mock set and completes without raising, the first
\* question displayed.
C19_StartSubstitutesMock ==
    (Started /\ lastEvent.note \in UnusableAnswers) =>
        /\ ~lastEvent.raised
        /\ lastEvent.source = "mock"
        /\ state.questions # <<>>
        /\ dom.phase = "interview"
        /\ dom.currentQuestion = state.questions[1].question

\* completeInterview has come to its end after the scoring or the aggregation of
\* the session item raised inside evaluateInterview
ScoringFailed ==
    /\ lastEvent.op = "completeInterview"
    /\ lastEvent.note \in {"scoringRaised", "evaluateInterviewRaised"}

\* C20: when scoring or aggregation fails, completion is not blocked: the
\* evaluation shown is the fallback, with score 50 and tier partial for every
\* question, and completeInterview comes to its end with the report shown.
C20_FailureGivesFallback ==
    ScoringFailed =>
        /\ ~lastEvent.raised
        /\ dom.evaluationContent = "shown"
        /\ evaluation.outcome = "returned"
        /\ evaluation.path = "fallback"
        /\ \A i \in DOMAIN questionAnalyses :
              questionAnalyses[i].score = 50 /\ questionAnalyses[i].correctness = "partial"

\* completeInterview has come to its end without raising
Completed == lastEvent.op = "completeInterview" /\ ~lastEvent.raised

\* the records of the history that carry the id of the session
recordsOf(sessionId) == {k \in DOMAIN History : History[k].id = sessionId}

\* C21: a session that completes evaluation has its record in the history, on the
\* catch path (no session item, evaluateInterview raised) as on the try path,
\* unless localStorage refused the write.
C21_CompletedSessionIsPersisted ==
    (Completed /\ ~lastEvent.quota) => recordsOf(state.sessionId) # {}

C23_StaleResponseIgnored ==
    Started =>
        /\ state.questionsFrom.sessionId = state.sessionId
        /\ state.status = "active"

\* the session holds no answer: none in this.state.answers, none in the session item
NoAnswerKept ==
    /\ state.answers = <<>>
    /\ \A i \in QuestionIndexes : userAnswerAt(sessionItem, i) = Null

\* a re-entrant startInterview (made while an earlier call was suspended) has come
\* to its end
ReentrantStarted == Started /\ state.questionsFrom.reentrant

\* C24: a re-entrant startInterview discards the prior in-flight session: after it
\* the question index is 0, no earlier answer remains in the controller state or in
\* the session item, and the session id is the one the call generated.
C24_ReentrantStartDiscards ==
    ReentrantStarted =>
        /\ state.currentIndex = 0
        /\ NoAnswerKept
        /\ state.sessionId = state.questionsFrom.sessionId

\* the last call found an item it cannot read as a list of records (no JSON, or JSON
\* that is no array), or localStorage refused its write
ReadFailed == lastOp.before.t \in {"corrupt", "object"}
WriteFailed == lastOp.quota

\* the last call left the stored item as it found it
StorageKept == storage = lastOp.before

\* C25: the store fails closed: when the item cannot be read as a list or the write
\* is refused, saveInterview returns null, deleteInterview, clearHistory and
\* importData return false, none of them raises, and the stored item is left as it
\* was before the call.
C25_StoreFailsClosed ==
    /\ (lastOp.op = "saveInterview" /\ (ReadFailed \/ WriteFailed)) =>
           lastOp.returned = "null" /\ StorageKept
    /\ (lastOp.op = "deleteInterview" /\ (ReadFailed \/ WriteFailed)) =>
           lastOp.returned = "false" /\ StorageKept
    /\ (lastOp.op \in {"clearHistory", "importData"} /\ WriteFailed) =>
           lastOp.returned = "false" /\ StorageKept

\* generateIntelligentReport has returned a report on at least one analysis
ReportedSome ==
    /\ evaluation.outcome = "returned"
    /\ evaluation.path \in {"scored", "fallback", "direct"}
    /\ questionAnalyses # <<>>

\* C26: the report on a non-empty list of analyses has at least 3 and at most 5
\* suggestions, whether 0, 1 or 2 suggestions were derived from the answers before
\* the generic ones were added.
C26_ThreeToFiveSuggestions ==
    ReportedSome =>
        /\ Len(evaluation.report.suggestions) >= 3
        /\ Len(evaluation.report.suggestions) <= 5

\* the questions of the evaluated session whose answer is a non-empty text with a
\* non-empty cleaned form
CleanedQuestions ==
    {i \in DOMAIN sessionData.questions :
        /\ sessionData.questions[i].userAnswer.t = "string"
        /\ cleanedAnswerOf(i) # ""}

SentenceEnds == {".", "!", "?"}

\* C27: a non-empty cleaned text begins with a capital letter whenever its first
\* character is a letter, also when the raw text began with a filler word or with
\* whitespace, and it ends with '.', '!' or '?'.
C27_CleanedIsCapitalisedSentence ==
    (Evaluated /\ evaluation.path = "scored") =>
        \A i \in CleanedQuestions :
            /\ Ch(cleanedAnswerOf(i), 1) \notin LowerSet
            /\ Ch(cleanedAnswerOf(i), Len(cleanedAnswerOf(i))) \in SentenceEnds

\* the last event was a click on next that did not end the session
Advanced == lastEvent.op = "nextQuestion" /\ state.status = "active"

\* C28: while a session is active the current question index is a valid index into
\* the question list: a click on next never moves currentIndex to a position
\* where no question exists.
C28_IndexStaysInQuestions ==
    Advanced => state.currentIndex < Len(state.questions)

\* C29: the role stored in the record of a session is the role its questions were
\* generated for at startInterview, also when the role selection changed while
\* the session was active.
C29_RecordKeepsStartedRole ==
    Completed =>
        \A k \in recordsOf(state.sessionId) : History[k].role = state.questionsFrom.role

\* C30: each session contributes at most one record: the history never holds two
\* records with the same session id.
C30_OneRecordPerSession ==
    \A k, j \in DOMAIN History : History[k].id = History[j].id => k = j

=============================================================================
